---- MODULE Spec2Model ----
(***************************************************************************)
(* Session registry of the SSE server: the two variants of startSSEServer.  *)
(*   SpecN  src/src/utils/sse.ts   sessions are never swept, OpenStream can *)
(*          resume a record by id, PostMessage probes transport liveness    *)
(*   SpecE  src/unnamed/part_000   sessions are swept after SESSION_TIMEOUT *)
(*          and a failed handshake deletes the provisional key              *)
(* Every request handler runs to completion; the only suspension point is   *)
(* `await server.connect(...)`, during which any other event may run.       *)
(* Date.now() advances in steps of SESSION_TIMEOUT; the 3000 ms re-key      *)
(* timer is due before the next step, so the clock waits for it.            *)
(***************************************************************************)
EXTENDS Integers, Sequences, FiniteSets, TLC

\* ---------------------------------------------------------------- bounds
MaxStreams == 2
MaxTicks == 2

\* ------------------------------------------------------ program constants
SESSION_TIMEOUT == 5 * 60 * 1000
\* the step by which the model lets Date.now() advance
TickMs == SESSION_TIMEOUT

VARIABLES
    sessions,   \* the Map<string, SessionInfo>, in insertion order: <<[key, rec]>>
    recs,       \* the SessionInfo objects ever created (heap), by reference number
    streams,    \* one entry per GET /sse request: its response stream, transport, closure
    timers,     \* pending setTimeout callbacks of the re-key
    now,        \* Date.now()
    ev          \* the last event handled and the response it produced

vars == <<sessions, recs, streams, timers, now, ev>>

\* ------------------------------------------------------------ identifiers
NoId == <<"none", 0>>
\* `session_${Date.now()}_${random}` allocated by the n-th GET /sse
TempId(n) == <<"session", n>>
\* transport.sessionId: the UUID the transport of stream t reports.  The transport
\* carries it from its construction on, so it can be presented by a request that
\* runs while server.connect is still pending.
TransportId(t) == <<"uuid", t>>
\* a string of the client's own making
ClientId == <<"client", 0>>
NoRec == 0

\* ------------------------------------------------- Map<string, SessionInfo>
HasKey(m, k) == \E i \in 1..Len(m) : m[i].key = k

\* sessions.get(k)
MapGet(m, k) ==
    IF HasKey(m, k) THEN m[CHOOSE i \in 1..Len(m) : m[i].key = k].rec ELSE NoRec

\* sessions.set(k, r): an existing key keeps its position, a new key goes last
MapSet(m, k, r) ==
    IF HasKey(m, k)
    THEN [i \in 1..Len(m) |-> IF m[i].key = k THEN [key |-> k, rec |-> r] ELSE m[i]]
    ELSE Append(m, [key |-> k, rec |-> r])

\* sessions.delete(k)
MapDelete(m, k) == SelectSeq(m, LAMBDA e : e.key # k)

\* the keys that map to record r, and the records the index holds
KeysOf(m, r) == {m[i].key : i \in {j \in 1..Len(m) : m[j].rec = r}}
Indexed(m) == {m[i].rec : i \in 1..Len(m)}

\* ----------------------------------------------------------------- events
Event(op, s, id, status, rec) ==
    [op |-> op, s |-> s, id |-> id, status |-> status, rec |-> rec,
     wasReady |-> FALSE, wasAlive |-> FALSE, fwd |-> 0, sent |-> "none",
     dataSessionId |-> NoId, resumeUrl |-> NoId]

\* the outcomes of transport.handlePostMessage(req, res)
ForwardOutcomes == {"ok", "notEstablished", "other"}

\* status of a request the transport answered itself
Forwarded == 0

\* ------------------------------------------------------------- transports
\* isTransportAlive: the transport has a response stream that is not destroyed
isTransportAlive(t) == t \in 1..Len(streams) /\ ~streams[t].closed

\* ids a client can put in a request: those handed out so far, and one of its own
KnownIds ==
    {streams[s].tempSessionId : s \in 1..Len(streams)}
        \cup {TransportId(t) : t \in 1..Len(streams)} \cup {ClientId}

\* ---------------------------------------------------------------- lookup
\* the first of the entries I in Map iteration order; 0 if there is none
FirstEntry(I) == IF I = {} THEN 0 ELSE CHOOSE i \in I : \A j \in I : i <= j

\* Normalize that leaves the stale key in the Map
Normalize_KeepStale(m, i, id) ==
    IF m[i].key # id THEN MapSet(m, id, m[i].rec) ELSE m

\* normalize: delete the stale key, insert the record under the requested key
Normalize(m, i, id) ==
    IF m[i].key # id THEN MapSet(MapDelete(m, m[i].key), id, m[i].rec) ELSE m

\* POST /messages resolution: direct key, then sessionInfo.sessionId, then
\* transport.sessionId.  Yields the record found and the index afterwards.
Lookup(m, rs, id) ==
    LET byId == FirstEntry({i \in 1..Len(m) : rs[m[i].rec].sessionId = id})
        byTransport ==
            FirstEntry({i \in 1..Len(m) : TransportId(rs[m[i].rec].transport) = id})
    IN  IF MapGet(m, id) # NoRec THEN [rec |-> MapGet(m, id), map |-> m, via |-> "key"]
        ELSE IF byId # 0
             THEN [rec |-> m[byId].rec, map |-> Normalize(m, byId, id), via |-> "id"]
        ELSE IF byTransport # 0
             THEN [rec |-> m[byTransport].rec, map |-> Normalize(m, byTransport, id),
                   via |-> "transport"]
        ELSE [rec |-> NoRec, map |-> m, via |-> "none"]

\* GET /sessions: one entry per Map entry, labelled with the entry's key
ListSessions ==
    [totalSessions |-> Len(sessions),
     sessions |-> [i \in 1..Len(sessions) |->
                     [sessionId |-> sessions[i].key,
                      isActive |-> recs[sessions[i].rec].isActive,
                      isReady |-> recs[sessions[i].rec].isReady,
                      lastActivity |-> recs[sessions[i].rec].lastActivity,
                      age |-> now - recs[sessions[i].rec].lastActivity]]]

\* the record a PostMessage(id) would resolve in the current state
Resolve(id) == Lookup(sessions, recs, id).rec

\* =========================================================================
\* src/src/utils/sse.ts  (never-expire variant)
\* =========================================================================

\* GET /sse?sessionId=requested, up to the await
OpenStreamN(requested) ==
    /\ Len(streams) < MaxStreams
    /\ LET s == Len(streams) + 1
           existing == IF requested # NoId THEN MapGet(sessions, requested) ELSE NoRec
       IN  IF existing # NoRec
           THEN \* resume: new transport on the existing record; server.connect
                \* is skipped ("noConnect") when the record is already ready
                /\ recs' = [recs EXCEPT ![existing].transport = s,
                                        ![existing].isActive = TRUE,
                                        ![existing].lastActivity = now]
                /\ sessions' = sessions
                /\ streams' = Append(streams,
                       [pc |-> IF recs[existing].isReady THEN "noConnect" ELSE "await",
                        rec |-> existing, isResume |-> TRUE,
                        tempSessionId |-> recs[existing].sessionId, closed |-> FALSE])
                /\ ev' = Event("open", s, requested, 0, existing)
           ELSE \* create
                LET tempSessionId == IF requested # NoId THEN requested ELSE TempId(s)
                    r == Len(recs) + 1
                IN  /\ recs' = Append(recs,
                           [transport |-> s, sessionId |-> tempSessionId,
                            lastActivity |-> now, isActive |-> TRUE, isReady |-> FALSE])
                    /\ sessions' = MapSet(sessions, tempSessionId, r)
                    /\ streams' = Append(streams,
                           [pc |-> "await", rec |-> r, isResume |-> FALSE,
                            tempSessionId |-> tempSessionId, closed |-> FALSE])
                    /\ ev' = Event("open", s, requested, 0, r)
    /\ UNCHANGED <<timers, now>>

\* the key the re-key timer of sse.ts deletes: sessionInfo.sessionId, read when
\* the callback runs
TimerKeyN(t) == recs[t.rec].sessionId

\* server.connect resolved: the continuation after the await
HandshakeOkN(s) ==
    /\ s \in 1..Len(streams)
    /\ streams[s].pc = "await"
    /\ LET r == streams[s].rec
           realSessionId == TransportId(recs[r].transport)
           rekey == realSessionId # recs[r].sessionId /\ ~streams[s].isResume
       IN  /\ sessions' = IF rekey THEN MapSet(sessions, realSessionId, r) ELSE sessions
           /\ timers' = IF rekey
                        THEN timers \cup {[rec |-> r, key |-> recs[r].sessionId]}
                        ELSE timers
           /\ recs' = [recs EXCEPT ![r].isReady = TRUE,
                                   ![r].sessionId = IF rekey THEN realSessionId ELSE @]
           /\ ev' = Event("connected", s, recs[r].sessionId, 0, r)
    /\ streams' = [streams EXCEPT ![s].pc = "done"]
    /\ UNCHANGED now

\* server.connect rejected: the record is kept, the request answered 500
HandshakeFailN(s) ==
    /\ s \in 1..Len(streams)
    /\ streams[s].pc = "await"
    /\ streams' = [streams EXCEPT ![s].pc = "failed"]
    /\ ev' = Event("connectFailed", s, recs[streams[s].rec].sessionId, 500, streams[s].rec)
    /\ UNCHANGED <<sessions, recs, timers, now>>

\* res.on('close')
CloseN(s) ==
    /\ s \in 1..Len(streams)
    /\ ~streams[s].closed
    /\ streams' = [streams EXCEPT ![s].closed = TRUE]
    /\ recs' = [recs EXCEPT ![streams[s].rec].isActive = FALSE]
    /\ ev' = Event("close", s, recs[streams[s].rec].sessionId, 0, streams[s].rec)
    /\ UNCHANGED <<sessions, timers, now>>

\* the setTimeout callback of the re-key
GraceTimerN(t) ==
    /\ t \in timers
    /\ sessions' = MapDelete(sessions, TimerKeyN(t))
    /\ timers' = timers \ {t}
    /\ ev' = Event("timer", 0, TimerKeyN(t), 0, t.rec)
    /\ UNCHANGED <<recs, streams, now>>

\* what POST /messages finds when it starts: the record the lookup resolves, its
\* readiness and the liveness of its transport
PostEvent(id, lk) ==
    [Event("post", 0, id, 0, lk.rec) EXCEPT
        !.wasReady = lk.rec # NoRec /\ recs[lk.rec].isReady,
        !.wasAlive = lk.rec # NoRec /\ isTransportAlive(recs[lk.rec].transport)]

\* DispatchN without the liveness probe: a dead transport is forwarded to
DispatchN_NoProbe(id, lk, out) ==
    LET r == lk.rec
    IN  /\ recs' = [recs EXCEPT ![r].lastActivity = now, ![r].isActive = TRUE]
        /\ ev' = [PostEvent(id, lk) EXCEPT !.fwd = 1, !.sent = out,
                      !.status = IF out = "ok" THEN Forwarded ELSE 500]

\* POST /messages from the lastActivity update on (the record is found and ready)
DispatchN(id, lk, out) ==
    LET r == lk.rec
    IN  IF ~isTransportAlive(recs[r].transport)
        THEN /\ recs' = [recs EXCEPT ![r].lastActivity = now, ![r].isActive = FALSE]
             /\ ev' = [PostEvent(id, lk) EXCEPT !.status = 410, !.dataSessionId = id,
                                                !.resumeUrl = id]
        ELSE IF out = "ok"
        THEN /\ recs' = [recs EXCEPT ![r].lastActivity = now, ![r].isActive = TRUE]
             /\ ev' = [PostEvent(id, lk) EXCEPT !.status = Forwarded, !.fwd = 1,
                                                !.sent = out]
        ELSE IF out = "notEstablished"
        THEN /\ recs' = [recs EXCEPT ![r].lastActivity = now, ![r].isActive = FALSE]
             /\ ev' = [PostEvent(id, lk) EXCEPT !.status = 410, !.fwd = 1, !.sent = out,
                                                !.dataSessionId = id, !.resumeUrl = id]
        ELSE /\ recs' = [recs EXCEPT ![r].lastActivity = now, ![r].isActive = TRUE]
             /\ ev' = [PostEvent(id, lk) EXCEPT !.status = 500, !.fwd = 1, !.sent = out]

\* PostMessageN with the lastActivity update moved before the readiness check
PostMessageN_RefreshEarly(id, out) ==
    /\ LET lk == Lookup(sessions, recs, id)
       IN  IF id = NoId
           THEN /\ out = "ok"
                /\ ev' = Event("post", 0, id, 400, NoRec)
                /\ UNCHANGED <<sessions, recs>>
           ELSE IF lk.rec = NoRec
           THEN /\ out = "ok"
                /\ ev' = [PostEvent(id, lk) EXCEPT !.status = 404]
                /\ UNCHANGED <<sessions, recs>>
           ELSE IF ~recs[lk.rec].isReady
           THEN /\ out = "ok"
                /\ sessions' = lk.map
                /\ ev' = [PostEvent(id, lk) EXCEPT !.status = 503]
                /\ recs' = [recs EXCEPT ![lk.rec].lastActivity = now]
           ELSE /\ sessions' = lk.map
                /\ (out = "ok" \/ isTransportAlive(recs[lk.rec].transport))
                /\ DispatchN(id, lk, out)
    /\ UNCHANGED <<streams, timers, now>>

\* POST /messages?sessionId=id; out is what transport.handlePostMessage does if
\* it is reached
PostMessageN(id, out) ==
    /\ LET lk == Lookup(sessions, recs, id)
       IN  IF id = NoId
           THEN /\ out = "ok"
                /\ ev' = Event("post", 0, id, 400, NoRec)
                /\ UNCHANGED <<sessions, recs>>
           ELSE IF lk.rec = NoRec
           THEN /\ out = "ok"
                /\ ev' = [PostEvent(id, lk) EXCEPT !.status = 404]
                /\ UNCHANGED <<sessions, recs>>
           ELSE IF ~recs[lk.rec].isReady
           THEN /\ out = "ok"
                /\ sessions' = lk.map
                /\ ev' = [PostEvent(id, lk) EXCEPT !.status = 503]
                /\ UNCHANGED recs
           ELSE /\ sessions' = lk.map
                /\ (out = "ok" \/ isTransportAlive(recs[lk.rec].transport))
                /\ DispatchN(id, lk, out)
    /\ UNCHANGED <<streams, timers, now>>

\* Date.now() moves on by TickMs; a pending 3000 ms timer fires first
Tick ==
    /\ now < MaxTicks * TickMs
    /\ timers = {}
    /\ now' = now + TickMs
    /\ ev' = Event("tick", 0, NoId, 0, NoRec)
    /\ UNCHANGED <<sessions, recs, streams, timers>>

Init ==
    /\ sessions = <<>>
    /\ recs = <<>>
    /\ streams = <<>>
    /\ timers = {}
    /\ now = 0
    /\ ev = Event("init", 0, NoId, 0, NoRec)

NextN ==
    \/ \E requested \in KnownIds \cup {NoId} : OpenStreamN(requested)
    \/ \E s \in 1..Len(streams) : HandshakeOkN(s)
    \/ \E s \in 1..Len(streams) : HandshakeFailN(s)
    \/ \E s \in 1..Len(streams) : CloseN(s)
    \/ \E t \in timers : GraceTimerN(t)
    \/ \E id \in KnownIds \cup {NoId}, out \in ForwardOutcomes : PostMessageN(id, out)
    \/ Tick

SpecN == Init /\ [][NextN]_vars

\* =========================================================================
\* src/unnamed/part_000  (expiring variant)
\* =========================================================================

\* OpenStreamE with the insertion left until after the handshake
OpenStreamE_InsertAfterAwait ==
    /\ Len(streams) < MaxStreams
    /\ LET s == Len(streams) + 1
           tempSessionId == TempId(s)
           r == Len(recs) + 1
       IN  /\ recs' = Append(recs,
                  [transport |-> s, sessionId |-> tempSessionId,
                   lastActivity |-> now, isActive |-> TRUE, isReady |-> FALSE])
           /\ sessions' = sessions
           /\ streams' = Append(streams,
                  [pc |-> "await", rec |-> r, isResume |-> FALSE,
                   tempSessionId |-> tempSessionId, closed |-> FALSE])
           /\ ev' = Event("open", s, NoId, 0, r)
    /\ UNCHANGED <<timers, now>>

\* GET /sse, up to the await: always a new record under a fresh provisional id
OpenStreamE ==
    /\ Len(streams) < MaxStreams
    /\ LET s == Len(streams) + 1
           tempSessionId == TempId(s)
           r == Len(recs) + 1
       IN  /\ recs' = Append(recs,
                  [transport |-> s, sessionId |-> tempSessionId,
                   lastActivity |-> now, isActive |-> TRUE, isReady |-> FALSE])
           /\ sessions' = MapSet(sessions, tempSessionId, r)
           /\ streams' = Append(streams,
                  [pc |-> "await", rec |-> r, isResume |-> FALSE,
                   tempSessionId |-> tempSessionId, closed |-> FALSE])
           /\ ev' = Event("open", s, NoId, 0, r)
    /\ UNCHANGED <<timers, now>>

\* the key the re-key timer of part_000 deletes: the constant tempSessionId
TimerKeyE(t) == t.key

\* server.connect resolved: the continuation after the await
HandshakeOkE(s) ==
    /\ s \in 1..Len(streams)
    /\ streams[s].pc = "await"
    /\ LET r == streams[s].rec
           tempSessionId == streams[s].tempSessionId
           realSessionId == TransportId(s)
           rekey == realSessionId # tempSessionId
       IN  /\ sessions' = IF rekey THEN MapSet(sessions, realSessionId, r) ELSE sessions
           /\ timers' = IF rekey
                        THEN timers \cup {[rec |-> r, key |-> tempSessionId]}
                        ELSE timers
           /\ recs' = [recs EXCEPT ![r].isReady = TRUE, ![r].sessionId = realSessionId]
           /\ ev' = Event("connected", s, tempSessionId, 0, r)
    /\ streams' = [streams EXCEPT ![s].pc = "done"]
    /\ UNCHANGED now

\* server.connect rejected: the provisional key is deleted, the request answered 500
HandshakeFailE(s) ==
    /\ s \in 1..Len(streams)
    /\ streams[s].pc = "await"
    /\ sessions' = MapDelete(sessions, streams[s].tempSessionId)
    /\ streams' = [streams EXCEPT ![s].pc = "failed"]
    /\ ev' = Event("connectFailed", s, streams[s].tempSessionId, 500, streams[s].rec)
    /\ UNCHANGED <<recs, timers, now>>

\* res.on('close'): the record is looked up again by its current id, then by the
\* provisional id
CloseE(s) ==
    /\ s \in 1..Len(streams)
    /\ ~streams[s].closed
    /\ LET currentId == recs[streams[s].rec].sessionId
           byCurrent == MapGet(sessions, currentId)
           session == IF byCurrent # NoRec THEN byCurrent
                      ELSE MapGet(sessions, streams[s].tempSessionId)
       IN  /\ recs' = IF session # NoRec THEN [recs EXCEPT ![session].isActive = FALSE]
                      ELSE recs
           /\ ev' = Event("close", s, currentId, 0, session)
    /\ streams' = [streams EXCEPT ![s].closed = TRUE]
    /\ UNCHANGED <<sessions, timers, now>>

\* the setTimeout callback of the re-key
GraceTimerE(t) ==
    /\ t \in timers
    /\ sessions' = MapDelete(sessions, TimerKeyE(t))
    /\ timers' = timers \ {t}
    /\ ev' = Event("timer", 0, TimerKeyE(t), 0, t.rec)
    /\ UNCHANGED <<recs, streams, now>>

\* the sweep's test with >= for >
Expired_AtTimeout(rec, t) == t - rec.lastActivity >= SESSION_TIMEOUT

\* the sweep's test with the operands of the subtraction exchanged
Expired_Reversed(rec, t) == rec.lastActivity - t > SESSION_TIMEOUT

\* the sweep's test of one record
Expired(rec, t) == t - rec.lastActivity > SESSION_TIMEOUT

\* the setInterval callback: every key of an idle record is deleted
SweepE ==
    /\ sessions' = SelectSeq(sessions, LAMBDA e : ~Expired(recs[e.rec], now))
    /\ ev' = Event("sweep", 0, NoId, 0, NoRec)
    /\ UNCHANGED <<recs, streams, timers, now>>

\* POST /messages from the lastActivity update on (the record is found and ready)
DispatchE(id, lk, out) ==
    LET r == lk.rec
    IN  /\ recs' = [recs EXCEPT ![r].lastActivity = now, ![r].isActive = TRUE]
        /\ ev' = [PostEvent(id, lk) EXCEPT !.fwd = 1, !.sent = out,
                      !.status = IF out = "ok" THEN Forwarded ELSE 500]

\* POST /messages?sessionId=id; out is what transport.handlePostMessage does
PostMessageE(id, out) ==
    /\ LET lk == Lookup(sessions, recs, id)
       IN  IF id = NoId
           THEN /\ out = "ok"
                /\ ev' = Event("post", 0, id, 400, NoRec)
                /\ UNCHANGED <<sessions, recs>>
           ELSE IF lk.rec = NoRec
           THEN /\ out = "ok"
                /\ ev' = [PostEvent(id, lk) EXCEPT !.status = 404]
                /\ UNCHANGED <<sessions, recs>>
           ELSE IF ~recs[lk.rec].isReady
           THEN /\ out = "ok"
                /\ sessions' = lk.map
                /\ ev' = [PostEvent(id, lk) EXCEPT !.status = 503]
                /\ UNCHANGED recs
           ELSE /\ sessions' = lk.map
                /\ DispatchE(id, lk, out)
    /\ UNCHANGED <<streams, timers, now>>

NextE ==
    \/ OpenStreamE
    \/ \E s \in 1..Len(streams) : HandshakeOkE(s)
    \/ \E s \in 1..Len(streams) : HandshakeFailE(s)
    \/ \E s \in 1..Len(streams) : CloseE(s)
    \/ \E t \in timers : GraceTimerE(t)
    \/ SweepE
    \/ \E id \in KnownIds \cup {NoId}, out \in ForwardOutcomes : PostMessageE(id, out)
    \/ Tick

SpecE == Init /\ [][NextE]_vars

\* SpecE with the timers of the event loop firing: Date.now() moves on, the
\* setInterval sweep keeps running and a pending setTimeout callback runs
SpecEFair ==
    /\ SpecE
    /\ WF_vars(Tick)
    /\ WF_vars(SweepE)
    /\ WF_vars(\E t \in timers : GraceTimerE(t))

\* =========================================================================
\* Properties
\* =========================================================================

\* the GET /sse requests that created a record, and what they created
Creator(s) == s \in 1..Len(streams) /\ ~streams[s].isResume
Suspended(s) == Creator(s) /\ streams[s].pc = "await"
\* the creating request of s has re-keyed its record
Rekeyed(s) ==
    /\ Creator(s)
    /\ streams[s].pc = "done"
    /\ recs[streams[s].rec].sessionId # streams[s].tempSessionId
\* the grace window of the re-key is open / is over
InGrace(s) == Rekeyed(s) /\ \E t \in timers : t.rec = streams[s].rec
GraceOver(s) == Rekeyed(s) /\ ~\E t \in timers : t.rec = streams[s].rec

\* C1: while the grace timer of a re-key is pending, a lookup of the provisional
\* id and a lookup of the durable id both resolve, to the re-keyed record.
C1_RekeyGrace ==
    \A s \in 1..Len(streams) :
        InGrace(s) =>
            /\ Resolve(streams[s].tempSessionId) = streams[s].rec
            /\ Resolve(recs[streams[s].rec].sessionId) = streams[s].rec

\* C2: once the grace timer has fired, the provisional id no longer resolves
\* (PostMessage answers 404) and the durable id still resolves the record.
C2_AfterGrace ==
    \A s \in 1..Len(streams) :
        GraceOver(s) =>
            /\ Resolve(streams[s].tempSessionId) = NoRec
            /\ Resolve(recs[streams[s].rec].sessionId) = streams[s].rec

C3_NeverNotFoundN ==
    \A s \in 1..Len(streams) : Suspended(s) => Resolve(streams[s].tempSessionId) # NoRec

\* the records of the registry that answer to id: as an index key, by their own
\* sessionId field, or by the id their transport reports
Answering(id) ==
    {r \in Indexed(sessions) :
        \/ id \in KeysOf(sessions, r)
        \/ recs[r].sessionId = id
        \/ TransportId(recs[r].transport) = id}

\* C4: no identifier is answered by two distinct records of the registry.
C4_Uniqueness == \A id \in KnownIds : Cardinality(Answering(id)) <= 1

\* C5: OpenStream(id) with the id of a ready session whose stream has closed
\* reattaches to that record: it is the record the request uses and the one the
\* id resolves afterwards, with the new transport, ready and active.
C5_ResumeRoundTrip ==
    [][\A r \in 1..Len(recs) :
          ( /\ Len(streams') = Len(streams) + 1
            /\ ev'.id = recs[r].sessionId
            /\ recs[r].isReady
            /\ streams[recs[r].transport].closed )
          => ( /\ ev'.rec = r
               /\ Lookup(sessions', recs', recs[r].sessionId).rec = r
               /\ recs'[r].transport = Len(streams')
               /\ recs'[r].isReady /\ recs'[r].isActive )]_vars

\* C6: a record once created always keeps an index key, and its id, once the
\* handshake has made it durable, never gets 404.
C6_NeverExpire ==
    \A r \in 1..Len(recs) :
        /\ KeysOf(sessions, r) # {}
        /\ recs[r].isReady => Resolve(recs[r].sessionId) # NoRec

\* C7: a sweep leaves no key of a record idle for more than SESSION_TIMEOUT, and
\* leaves every key of every other record as it was.
C7_IdleExpiry ==
    [][ev'.op = "sweep" =>
          /\ \A i \in 1..Len(sessions') :
                ~(now' - recs'[sessions'[i].rec].lastActivity > SESSION_TIMEOUT)
          /\ \A i \in 1..Len(sessions) :
                (now - recs[sessions[i].rec].lastActivity <= SESSION_TIMEOUT) =>
                    MapGet(sessions', sessions[i].key) = sessions[i].rec]_vars

\* a sweep has just removed an idle record and kept one that is exactly
\* SESSION_TIMEOUT idle
C7_Witness ==
    /\ ev.op = "sweep"
    /\ \E r \in 1..Len(recs) : r \notin Indexed(sessions) /\ Expired(recs[r], now)
                               /\ \A s \in 1..Len(streams) :
                                     streams[s].rec = r => streams[s].pc # "failed"
    /\ \E r \in Indexed(sessions) : now - recs[r].lastActivity = SESSION_TIMEOUT

\* C8: a PostMessage that resolved a ready record with a dead transport is
\* answered 410 with the session id and a resume URL of that id, forwards
\* nothing, and leaves the record indexed and inactive.
C8_DeadTransport ==
    (ev.op = "post" /\ ev.rec # NoRec /\ ev.wasReady /\ ~ev.wasAlive) =>
        /\ ev.status = 410
        /\ ev.dataSessionId = ev.id /\ ev.resumeUrl = ev.id
        /\ ev.fwd = 0 /\ ev.sent = "none"
        /\ ev.rec \in Indexed(sessions)
        /\ Resolve(ev.id) = ev.rec
        /\ ~recs[ev.rec].isActive

\* such a request has been answered 410, at a time after the record's creation
C8_Witness ==
    /\ ev.op = "post" /\ ev.rec # NoRec /\ ev.wasReady /\ ~ev.wasAlive
    /\ ev.status = 410
    /\ recs[ev.rec].lastActivity > 0

\* the outcome section 4.3 gives a request, from what the request found
Outcome(e) ==
    IF e.id = NoId THEN 400
    ELSE IF e.rec = NoRec THEN 404
    ELSE IF ~e.wasReady THEN 503
    ELSE IF ~e.wasAlive THEN 410
    ELSE IF e.sent = "ok" THEN Forwarded
    ELSE IF e.sent = "notEstablished" THEN 410
    ELSE 500

\* C9: the dispatcher's outcome is that of the first failing precondition; the
\* payload is forwarded once exactly when all four pass; a forwarding exception
\* gives 410 and an inactive record if the stream was never established, else 500.
C9_DispatchOrder ==
    ev.op = "post" =>
        /\ ev.status = Outcome(ev)
        /\ ev.fwd = IF ev.id # NoId /\ ev.rec # NoRec /\ ev.wasReady /\ ev.wasAlive
                    THEN 1 ELSE 0
        /\ (ev.fwd = 1 /\ ev.sent = "notEstablished") => ~recs[ev.rec].isActive

\* C10: a record that is out of the index (removed by the sweep or by the failed
\* handshake) never comes back under any key.
C10_ExpiredTerminal ==
    [][\A r \in 1..Len(recs) :
          r \notin Indexed(sessions) => r \notin Indexed(sessions')]_vars

\* C11: after server.connect has rejected, the record is under no key of the
\* index (so no lookup path finds it).
C11_FailedHandshakeExpires ==
    \A s \in 1..Len(streams) :
        streams[s].pc = "failed" => streams[s].rec \notin Indexed(sessions)

\* C12: the close event of the stream that backs a registered record leaves the
\* record inactive, whatever keys it is indexed under.
C12_CloseMarksInactive ==
    [][\A s \in 1..Len(streams) :
          ( /\ ~streams[s].closed /\ streams'[s].closed
            /\ recs[streams[s].rec].transport = s
            /\ streams[s].rec \in Indexed(sessions) )
          => ~recs'[streams[s].rec].isActive]_vars

\* C13: a lookup that misses directly and hits by a fallback leaves the requested
\* id a key of the record found, the stale key gone, the same records registered
\* and the keys of every other record as they were.
C13_SelfHealing ==
    [][( /\ ev'.op = "post"
         /\ Lookup(sessions, recs, ev'.id).via \in {"id", "transport"} )
       => LET id == ev'.id
              r == Lookup(sessions, recs, id).rec
          IN  /\ MapGet(sessions', id) = r
              /\ \E k \in KeysOf(sessions, r) :
                    /\ ~HasKey(sessions', k)
                    /\ KeysOf(sessions', r) = (KeysOf(sessions, r) \ {k}) \cup {id}
              /\ Indexed(sessions') = Indexed(sessions)
              /\ \A q \in Indexed(sessions) \ {r} :
                    KeysOf(sessions', q) = KeysOf(sessions, q)]_vars

\* a fallback hit has re-keyed one record while another record is registered
C13_Witness ==
    /\ ev.op = "post" /\ ev.rec # NoRec
    /\ KeysOf(sessions, ev.rec) = {ev.id}
    /\ recs[ev.rec].sessionId # ev.id
    /\ Cardinality(Indexed(sessions)) = 2

\* what a PostMessage step leaves alone: streams, timers, the clock, every other
\* record, and the transport, id and readiness of the record it resolved
C14_Frame ==
    LET lk == Lookup(sessions, recs, ev'.id)
    IN  /\ streams' = streams /\ timers' = timers /\ now' = now
        /\ sessions' = lk.map
        /\ Len(recs') = Len(recs)
        /\ \A q \in 1..Len(recs) :
              IF q = lk.rec
              THEN [recs'[q] EXCEPT !.lastActivity = 0, !.isActive = FALSE]
                     = [recs[q] EXCEPT !.lastActivity = 0, !.isActive = FALSE]
              ELSE recs'[q] = recs[q]

C15_FreshId ==
    [][( /\ ev'.op = "open" /\ Len(recs') = Len(recs) + 1 )
       => LET r == Len(recs')
          IN  /\ ~recs'[r].isReady
              /\ ~HasKey(sessions, recs'[r].sessionId)
              /\ MapGet(sessions', recs'[r].sessionId) = r
              /\ recs'[r].sessionId # ev'.id]_vars

\* C16: GET /sessions lists one entry per registered record, totalSessions is
\* the number of registered records, and every entry carries the current id of
\* its record.
C16_ListPerRecord ==
    /\ ListSessions.totalSessions = Cardinality(Indexed(sessions))
    /\ Len(ListSessions.sessions) = Cardinality(Indexed(sessions))
    /\ \A i \in 1..Len(sessions) :
          ListSessions.sessions[i].sessionId = recs[sessions[i].rec].sessionId

\* C18: the close event of a stream that is no longer the transport of its
\* record leaves the record's isActive flag as it was.
C18_StaleCloseIgnored ==
    [][\A s \in 1..Len(streams) :
          ( /\ ~streams[s].closed /\ streams'[s].closed
            /\ recs[streams[s].rec].transport # s )
          => recs'[streams[s].rec].isActive = recs[streams[s].rec].isActive]_vars

\* C19: the transport of a ready record is one on which server.connect has
\* completed.
C19_ReadyTransportConnected ==
    \A r \in 1..Len(recs) :
        recs[r].isReady => streams[recs[r].transport].pc = "done"

\* C20: an OpenStream with an id that PostMessage would resolve to a record
\* resumes that record and creates none.
C20_OpenAgreesWithPost ==
    [][( /\ ev'.op = "open" /\ ev'.id # NoId
         /\ Resolve(ev'.id) # NoRec )
       => /\ Len(recs') = Len(recs)
          /\ ev'.rec = Resolve(ev'.id)]_vars

\* C17: with the clock and the sweep running, every record is, from some point
\* on and for ever, either under no key of the index or not idle for longer than
\* SESSION_TIMEOUT (which takes further requests to keep true as time passes).
C17_Reclaimed ==
    \A r \in 1..MaxStreams :
        <>[](r \in 1..Len(recs)
               => \/ r \notin Indexed(sessions)
                  \/ now - recs[r].lastActivity <= SESSION_TIMEOUT)

\* a sweep has removed a record that a late handshake completion had put back
\* in the index (its grace timer is still pending)
C17_Witness ==
    /\ ev.op = "sweep"
    /\ \E t \in timers :
          /\ t.rec \notin Indexed(sessions)
          /\ now - recs[t.rec].lastActivity > SESSION_TIMEOUT
====
